---- MODULE Spec2Model ----
(***************************************************************************)
(* Model of property.py: four classes A, B, C, D that each expose one      *)
(* attribute `x` through a property object over the private instance       *)
(* attribute `_x`, and the demonstration routine main().                   *)
(*                                                                         *)
(* An instance is a record [cls, dict]: its class and its __dict__, a      *)
(* function whose domain is the set of attribute names currently bound.    *)
(* "The field is absent" means "_x" is not in DOMAIN dict.                 *)
(***************************************************************************)
EXTENDS Integers, Sequences, FiniteSets, TLC

VARIABLES
    name,     \* the module's __name__: "__main__" (run as script) or "property" (imported)
    pc,       \* position of the interpreter
    heap,     \* sequence of the instances constructed so far
    log,      \* per instance, the operations on x applied to it and what each did
    frame,    \* main()'s local variables: local name -> index in heap (0 = unbound)
    stdout    \* the lines printed so far

vars == <<name, pc, heap, log, frame, stdout>>

(***************************************************************************)
(* Bounds                                                                  *)
(***************************************************************************)
\* instances an importing caller constructs
MaxObjs == 2
\* operations on x an importing caller performs in total
MaxOps == 3

(***************************************************************************)
(* Python values                                                           *)
(***************************************************************************)
None == [t |-> "NoneType", v |-> 0]

PyInt(n) == [t |-> "int", v |-> n]

\* the values an importing caller writes
Values == {PyInt(5), PyInt(10)}

\* str() as applied by the print statement
Str(val) ==
    IF val.t = "NoneType" THEN "None"
    ELSE IF val.v = 5 THEN "5"
    ELSE IF val.v = 10 THEN "10"
    ELSE "?"

(***************************************************************************)
(* Outcomes of evaluating an expression or statement                       *)
(***************************************************************************)
\* AttributeError raised by a property that has no function bound for the access
\* ("can't set attribute", "can't delete attribute", "unreadable attribute")
CapabilityNotAvailable == "AttributeError: no accessor bound"

\* AttributeError raised by getattr/delattr of a name missing from __dict__
FieldAbsent == "AttributeError: no attribute '_x'"

Return(val) == [kind |-> "return", val |-> val, err |-> ""]

Raise(e) == [kind |-> "raise", val |-> None, err |-> e]

\* what a function call gives back: the instance as it left it, and the outcome
Result(self, out) == [obj |-> self, out |-> out]

(***************************************************************************)
(* Instance attribute access: self._x, self._x = value, del self._x        *)
(***************************************************************************)
EmptyDict == [n \in {} |-> None]

GetAttr(self) ==
    IF "_x" \in DOMAIN self.dict
    THEN Result(self, Return(self.dict["_x"]))
    ELSE Result(self, Raise(FieldAbsent))

SetAttr(self, value) ==
    Result([self EXCEPT !.dict = [n \in {"_x"} |-> value]], Return(None))

DelAttr(self) ==
    IF "_x" \in DOMAIN self.dict
    THEN Result([self EXCEPT !.dict = EmptyDict], Return(None))
    ELSE Result(self, Raise(FieldAbsent))

(***************************************************************************)
(* The methods of the four classes                                         *)
(***************************************************************************)
A_init(self) == SetAttr(self, None)

A_getx(self) == GetAttr(self)

\* A.__setx that drops the value it is given
A_setx_dropsValue(self, value) == SetAttr(self, None)

A_setx(self, value) == SetAttr(self, value)

A_delx(self) == DelAttr(self)

B_init(self) == SetAttr(self, None)

B_getx(self) == GetAttr(self)

\* B.__delx that tolerates a missing attribute
B_delx_idempotent(self) ==
    IF "_x" \in DOMAIN self.dict THEN DelAttr(self) ELSE Result(self, Return(None))

B_delx(self) == DelAttr(self)

C_init(self) == SetAttr(self, None)

\* C.x getter that consumes the attribute it returns
C_x_getter_consuming(self) ==
    IF "_x" \in DOMAIN self.dict
    THEN Result([self EXCEPT !.dict = EmptyDict], Return(self.dict["_x"]))
    ELSE Result(self, Raise(FieldAbsent))

C_x_getter(self) == GetAttr(self)

\* C.x setter that only rebinds an attribute that exists
C_x_setter_ifPresent(self, value) ==
    IF "_x" \in DOMAIN self.dict THEN SetAttr(self, value) ELSE Result(self, Raise(FieldAbsent))

C_x_setter(self, value) == SetAttr(self, value)

C_x_deleter(self) == DelAttr(self)

\* D.__init__ that binds nothing
D_init_unset(self) == Result(self, Return(None))

D_init(self) == SetAttr(self, None)

D_x_getter(self) == GetAttr(self)

\* D.x deleter that resets the attribute to None instead of removing it
D_x_deleter_clears(self) == SetAttr(self, None)

D_x_deleter(self) == DelAttr(self)

\* a function object is named by a string; NoFn is Python's None in a property slot
NoFn == "None"

Call0(fn, self) ==
    CASE fn = "A.__getx" -> A_getx(self)
      [] fn = "A.__delx" -> A_delx(self)
      [] fn = "B.__getx" -> B_getx(self)
      [] fn = "B.__delx" -> B_delx(self)
      [] fn = "C.x.getter" -> C_x_getter(self)
      [] fn = "C.x.deleter" -> C_x_deleter(self)
      [] fn = "D.x.getter" -> D_x_getter(self)
      [] fn = "D.x.deleter" -> D_x_deleter(self)

Call1(fn, self, value) ==
    CASE fn = "A.__setx" -> A_setx(self, value)
      [] fn = "C.x.setter" -> C_x_setter(self, value)

(***************************************************************************)
(* The property objects bound to `x` in each class body                    *)
(***************************************************************************)
\* property(fget, fset, fdel)
Property(fget, fset, fdel) == [fget |-> fget, fset |-> fset, fdel |-> fdel]

\* @p.setter and @p.deleter: a copy of p with one more function bound
WithSetter(p, f) == [p EXCEPT !.fset = f]

WithDeleter(p, f) == [p EXCEPT !.fdel = f]

A_x == Property("A.__getx", "A.__setx", "A.__delx")

\* B.x with a setter bound
B_x_writable == Property("B.__getx", "A.__setx", "B.__delx")

B_x == Property("B.__getx", NoFn, "B.__delx")

\* C.x without the @x.deleter block
C_x_noDeleter == WithSetter(Property("C.x.getter", NoFn, NoFn), "C.x.setter")

C_x == WithDeleter(WithSetter(Property("C.x.getter", NoFn, NoFn), "C.x.setter"), "C.x.deleter")

\* D.x without the @x.deleter block
D_x_noDeleter == Property("D.x.getter", NoFn, NoFn)

\* D.x with an @x.setter block
D_x_writable ==
    WithDeleter(WithSetter(Property("D.x.getter", NoFn, NoFn), "C.x.setter"), "D.x.deleter")

D_x == WithDeleter(Property("D.x.getter", NoFn, NoFn), "D.x.deleter")

Classes == {"A", "B", "C", "D"}

\* the class attribute `x` found by attribute lookup on an instance
PropertyOf(cls) ==
    CASE cls = "A" -> A_x
      [] cls = "B" -> B_x
      [] cls = "C" -> C_x
      [] cls = "D" -> D_x

(***************************************************************************)
(* obj.x, obj.x = value, del obj.x: the descriptor protocol of property    *)
(***************************************************************************)
ReadX(self) ==
    LET p == PropertyOf(self.cls) IN
    IF p.fget = NoFn THEN Result(self, Raise(CapabilityNotAvailable))
    ELSE Call0(p.fget, self)

WriteX(self, value) ==
    LET p == PropertyOf(self.cls) IN
    IF p.fset = NoFn THEN Result(self, Raise(CapabilityNotAvailable))
    ELSE Call1(p.fset, self, value)

DeleteX(self) ==
    LET p == PropertyOf(self.cls) IN
    IF p.fdel = NoFn THEN Result(self, Raise(CapabilityNotAvailable))
    ELSE Call0(p.fdel, self)

\* cls(): a new instance with an empty __dict__, then __init__
Init_(cls, self) ==
    CASE cls = "A" -> A_init(self)
      [] cls = "B" -> B_init(self)
      [] cls = "C" -> C_init(self)
      [] cls = "D" -> D_init(self)

New(cls) == Init_(cls, [cls |-> cls, dict |-> EmptyDict]).obj

\* one operation on x of an instance
Apply(self, o) ==
    CASE o.op = "read" -> ReadX(self)
      [] o.op = "write" -> WriteX(self, o.arg)
      [] o.op = "delete" -> DeleteX(self)

\* the log entry of an operation: what was asked, the outcome, the __dict__ before and after
Entry(self, o) ==
    LET r == Apply(self, o) IN
    [op |-> o.op, arg |-> o.arg, out |-> r.out, pre |-> self.dict, post |-> r.obj.dict]

(***************************************************************************)
(* The interpreter                                                         *)
(***************************************************************************)
RECURSIVE TotalOps(_)
\* operations on x performed so far, over all instances
TotalOps(ls) == IF ls = <<>> THEN 0 ELSE Len(Head(ls)) + TotalOps(Tail(ls))

Init ==
    /\ name \in {"__main__", "property"}
    /\ pc = "module"
    /\ heap = <<>>
    /\ log = <<>>
    /\ frame = [a |-> 0, b |-> 0, c |-> 0, d |-> 0]
    /\ stdout = <<>>

\* the class bodies are executed, then `if __name__ == '__main__': main()`
ModuleExec ==
    /\ pc = "module"
    /\ pc' = IF name = "__main__" THEN "main109" ELSE "imported"
    /\ UNCHANGED <<name, heap, log, frame, stdout>>

\* var = cls()
MainNew(at, next, var, cls) ==
    /\ pc = at
    /\ heap' = Append(heap, New(cls))
    /\ log' = Append(log, <<>>)
    /\ frame' = [frame EXCEPT ![var] = Len(heap) + 1]
    /\ pc' = next
    /\ UNCHANGED <<name, stdout>>

\* var.x = value; an exception is not caught and ends the run
MainWrite(at, next, var, value) ==
    /\ pc = at
    /\ LET i == frame[var]
           o == [op |-> "write", arg |-> value]
           r == Apply(heap[i], o)
       IN /\ heap' = [heap EXCEPT ![i] = r.obj]
          /\ log' = [log EXCEPT ![i] = Append(@, Entry(heap[i], o))]
          /\ pc' = IF r.out.kind = "raise" THEN "crashed" ELSE next
    /\ UNCHANGED <<name, frame, stdout>>

\* print var.x
MainPrint(at, next, var) ==
    /\ pc = at
    /\ LET i == frame[var]
           o == [op |-> "read", arg |-> None]
           r == Apply(heap[i], o)
       IN /\ heap' = [heap EXCEPT ![i] = r.obj]
          /\ log' = [log EXCEPT ![i] = Append(@, Entry(heap[i], o))]
          /\ IF r.out.kind = "raise"
             THEN pc' = "crashed" /\ stdout' = stdout
             ELSE pc' = next /\ stdout' = Append(stdout, Str(r.out.val))
    /\ UNCHANGED <<name, frame>>

Main109 == MainNew("main109", "main111", "a", "A")

Main111 == MainWrite("main111", "main113", "a", PyInt(5))

Main113 == MainPrint("main113", "main115", "a")

Main115 == MainNew("main115", "main118", "b", "B")

Main118 == MainPrint("main118", "main120", "b")

Main120 == MainNew("main120", "main121", "c", "C")

Main121 == MainWrite("main121", "main122", "c", PyInt(5))

Main122 == MainPrint("main122", "main124", "c")

Main124 == MainNew("main124", "main127", "d", "D")

\* the last statement: main() returns and the interpreter exits
Main127 == MainPrint("main127", "exit", "d")

MainStep ==
    \/ Main109 \/ Main111 \/ Main113 \/ Main115 \/ Main118
    \/ Main120 \/ Main121 \/ Main122 \/ Main124 \/ Main127

(***************************************************************************)
(* A caller that imported the module and uses the classes                  *)
(***************************************************************************)
Construct(cls) ==
    /\ pc = "imported"
    /\ Len(heap) < MaxObjs
    /\ heap' = Append(heap, New(cls))
    /\ log' = Append(log, <<>>)
    /\ UNCHANGED <<name, pc, frame, stdout>>

Operate(i, o) ==
    /\ pc = "imported"
    /\ TotalOps(log) < MaxOps
    /\ heap' = [heap EXCEPT ![i] = Apply(heap[i], o).obj]
    /\ log' = [log EXCEPT ![i] = Append(@, Entry(heap[i], o))]
    /\ UNCHANGED <<name, pc, frame, stdout>>

Read(i) == Operate(i, [op |-> "read", arg |-> None])

Write(i, value) == Operate(i, [op |-> "write", arg |-> value])

Delete(i) == Operate(i, [op |-> "delete", arg |-> None])

Next ==
    \/ ModuleExec
    \/ MainStep
    \/ \E cls \in Classes : Construct(cls)
    \/ \E i \in DOMAIN heap : Read(i)
    \/ \E i \in DOMAIN heap, value \in Values : Write(i, value)
    \/ \E i \in DOMAIN heap : Delete(i)

Spec == Init /\ [][Next]_vars

\* the interpreter runs main() statement by statement until it returns or raises
FairSpec == Spec /\ WF_vars(ModuleExec) /\ WF_vars(MainStep)

TypeOK ==
    /\ name \in {"__main__", "property"}
    /\ Len(log) = Len(heap)
    /\ \A i \in DOMAIN heap :
          /\ heap[i].cls \in Classes
          /\ DOMAIN heap[i].dict \subseteq {"_x"}

(***************************************************************************)
(* Vocabulary of the properties                                            *)
(***************************************************************************)
Present(dict) == "_x" \in DOMAIN dict

ReadWrite == {"A", "C"}

ReadOnly == {"B", "D"}

Done == Return(None)

\* index of the most recent write or delete among the first n entries of a log, 0 if none
LastMutation(h, n) ==
    LET ks == {k \in 1..n : h[k].op \in {"write", "delete"}} IN
    IF ks = {} THEN 0 ELSE CHOOSE k \in ks : \A m \in ks : m <= k

\* the operations a log records, without what they did
OpsOf(h) == [k \in 1..Len(h) |-> [op |-> h[k].op, arg |-> h[k].arg]]

RECURSIVE RunFrom(_, _)
\* the log a run of the operations os leaves, started on the instance self
RunFrom(self, os) ==
    IF os = <<>> THEN <<>>
    ELSE <<Entry(self, Head(os))>> \o RunFrom(Apply(self, Head(os)).obj, Tail(os))

\* the __dict__ an instance has after the entries of its log
FinalDict(self0, h) == IF h = <<>> THEN self0.dict ELSE h[Len(h)].post

\* the class written in the other syntactic form with the same capabilities
Twin(cls) ==
    CASE cls = "A" -> "C"
      [] cls = "C" -> "A"
      [] cls = "B" -> "D"
      [] cls = "D" -> "B"

(***************************************************************************)
(* C1: on an A or C instance whose field is present, a read of x succeeds  *)
(* and returns the value of the most recent write since the last delete,   *)
(* or None if the instance was neither written nor deleted; this holds of  *)
(* the current state and of every read the log records.                    *)
(***************************************************************************)
C1_ReadReturnsLastWrite ==
    \A i \in DOMAIN heap :
        heap[i].cls \in ReadWrite =>
            /\ Present(heap[i].dict) =>
                  LET m == LastMutation(log[i], Len(log[i])) IN
                  /\ m # 0 => log[i][m].op = "write"
                  /\ ReadX(heap[i]).out = Return(IF m = 0 THEN None ELSE log[i][m].arg)
            /\ \A k \in 1..Len(log[i]) :
                  (log[i][k].op = "read" /\ Present(log[i][k].pre)) =>
                      LET m == LastMutation(log[i], k - 1) IN
                      /\ m # 0 => log[i][m].op = "write"
                      /\ log[i][k].out = Return(IF m = 0 THEN None ELSE log[i][m].arg)

\* an A or C instance was written 5, then 10, then read
C1_Witness ==
    \E i \in DOMAIN heap :
        /\ heap[i].cls \in ReadWrite
        /\ Len(log[i]) >= 3
        /\ log[i][1].op = "write" /\ log[i][1].arg = PyInt(5)
        /\ log[i][2].op = "write" /\ log[i][2].arg = PyInt(10)
        /\ log[i][3].op = "read" /\ log[i][3].out = Return(PyInt(10))

(***************************************************************************)
(* C2: on a B or D instance every write of x fails with "capability not    *)
(* available", whether the field is present or absent, and leaves the      *)
(* field as it was.                                                        *)
(***************************************************************************)
C2_WriteRefused ==
    \A i \in DOMAIN heap :
        heap[i].cls \in ReadOnly =>
            /\ \A v \in Values :
                  /\ WriteX(heap[i], v).out = Raise(CapabilityNotAvailable)
                  /\ WriteX(heap[i], v).obj = heap[i]
            /\ \A k \in 1..Len(log[i]) :
                  log[i][k].op = "write" =>
                      /\ log[i][k].out = Raise(CapabilityNotAvailable)
                      /\ log[i][k].post = log[i][k].pre

\* a B or D instance was written to after its field had been deleted
C2_Witness ==
    \E i \in DOMAIN heap :
        /\ heap[i].cls \in ReadOnly
        /\ \E k \in 1..Len(log[i]) :
              /\ log[i][k].op = "write"
              /\ ~Present(log[i][k].pre)
              /\ log[i][k].out.kind = "raise"

(***************************************************************************)
(* C3: on every class a delete of x on an instance whose field is present  *)
(* succeeds and makes the field absent, and the read performed next on     *)
(* that instance fails with "field absent".                                *)
(***************************************************************************)
C3_DeleteMakesAbsent ==
    \A i \in DOMAIN heap :
        \A k \in 1..Len(log[i]) :
            (log[i][k].op = "delete" /\ Present(log[i][k].pre)) =>
                /\ log[i][k].out = Done
                /\ ~Present(log[i][k].post)
                /\ ReadX([cls |-> heap[i].cls, dict |-> log[i][k].post]).out = Raise(FieldAbsent)
                /\ (k < Len(log[i]) /\ log[i][k + 1].op = "read") =>
                      log[i][k + 1].out = Raise(FieldAbsent)

\* a present field was deleted and then read
C3_Witness ==
    \E i \in DOMAIN heap :
        \E k \in 1..(Len(log[i]) - 1) :
            /\ log[i][k].op = "delete" /\ Present(log[i][k].pre)
            /\ log[i][k + 1].op = "read"

(***************************************************************************)
(* C4: on every class a delete of x on an instance whose field is absent   *)
(* fails with the error a read of the absent field raises, "field          *)
(* absent", and the field stays absent.                                    *)
(***************************************************************************)
C4_DeleteNotRepeatable ==
    \A i \in DOMAIN heap :
        \A k \in 1..Len(log[i]) :
            (log[i][k].op = "delete" /\ ~Present(log[i][k].pre)) =>
                /\ log[i][k].out = Raise(FieldAbsent)
                /\ log[i][k].out = ReadX([cls |-> heap[i].cls, dict |-> log[i][k].pre]).out
                /\ ~Present(log[i][k].post)

\* a field was deleted twice in a row
C4_Witness ==
    \E i \in DOMAIN heap :
        \E k \in 1..(Len(log[i]) - 1) :
            /\ log[i][k].op = "delete" /\ log[i][k].out = Done
            /\ log[i][k + 1].op = "delete" /\ ~Present(log[i][k + 1].pre)

(***************************************************************************)
(* C5: the operations applied to an instance, run from a fresh instance    *)
(* of the twin class (C for A, A for C, D for B, B for D), give at each    *)
(* step the same outcome and the same field state as they gave on the      *)
(* instance itself.                                                        *)
(***************************************************************************)
C5_TwinsAgree ==
    \A i \in DOMAIN heap :
        LET twin == New(Twin(heap[i].cls))
            run == RunFrom(twin, OpsOf(log[i]))
        IN /\ run = log[i]
           /\ FinalDict(twin, run) = heap[i].dict

\* an instance went through a write, a delete and one more operation
C5_Witness ==
    \E i \in DOMAIN heap :
        /\ Len(log[i]) >= 3
        /\ \E k \in 1..Len(log[i]) : log[i][k].op = "write"
        /\ \E k \in 1..Len(log[i]) : log[i][k].op = "delete"

\* what main() prints, line by line
MainExpected == <<"5", "None", "5", "None">>

C6_Safe ==
    /\ pc # "crashed"
    /\ name = "__main__" =>
          /\ Len(stdout) <= Len(MainExpected)
          /\ stdout = SubSeq(MainExpected, 1, Len(stdout))
          /\ pc = "exit" => stdout = MainExpected
          /\ \A i \in DOMAIN heap : \A k \in 1..Len(log[i]) :
                /\ log[i][k].op # "delete"
                /\ heap[i].cls \in ReadOnly => log[i][k].op # "write"

(***************************************************************************)
(* C6: run as a script, main() never reaches an error state, prints        *)
(* exactly 5, None, 5, None in this order, performs no write on B or D     *)
(* and no delete, and terminates normally.                                 *)
(***************************************************************************)
C6_MainOutput == []C6_Safe /\ ((name = "__main__") ~> (pc = "exit"))

\* main() has returned after constructing four instances and printing four lines
C6_Witness == pc = "exit" /\ Len(stdout) = 4 /\ Len(heap) = 4

(***************************************************************************)
(* C7 as stated: the only error any operation raises is "capability not    *)
(* available", raised by a write or delete that has no accessor bound.     *)
(***************************************************************************)
C7_OnlyCapabilityErrors ==
    \A i \in DOMAIN heap :
        \A k \in 1..Len(log[i]) :
            log[i][k].out.kind = "raise" =>
                /\ log[i][k].out.err = CapabilityNotAvailable
                /\ \/ log[i][k].op = "write" /\ PropertyOf(heap[i].cls).fset = NoFn
                   \/ log[i][k].op = "delete" /\ PropertyOf(heap[i].cls).fdel = NoFn

(***************************************************************************)
(* C7 amended: an operation raises one of two errors and no other:         *)
(* "capability not available", raised exactly by the writes on B and D     *)
(* (no setter bound), and "field absent", raised exactly by the reads and  *)
(* deletes on an instance whose field is absent; every other operation     *)
(* succeeds.                                                               *)
(***************************************************************************)
C7_TwoErrorKinds ==
    \A i \in DOMAIN heap :
        \A k \in 1..Len(log[i]) :
            LET e == log[i][k] IN
            /\ e.out.kind \in {"return", "raise"}
            /\ e.out = Raise(CapabilityNotAvailable) <=>
                  (e.op = "write" /\ heap[i].cls \in ReadOnly)
            /\ e.out = Raise(FieldAbsent) <=>
                  (e.op \in {"read", "delete"} /\ ~Present(e.pre))
            /\ e.out.kind = "raise" =>
                  e.out.err \in {CapabilityNotAvailable, FieldAbsent}

\* both errors have been raised
C7_Witness ==
    /\ \E i \in DOMAIN heap : \E k \in 1..Len(log[i]) :
          log[i][k].out = Raise(CapabilityNotAvailable)
    /\ \E i \in DOMAIN heap : \E k \in 1..Len(log[i]) :
          log[i][k].out = Raise(FieldAbsent) /\ log[i][k].op = "read"

\* the instances a step operates on
Touched == {i \in DOMAIN heap : log'[i] # log[i]}

(***************************************************************************)
(* C8: a step operates on at most one instance; every other live instance  *)
(* keeps its field, whether the operation succeeds or fails and whether a  *)
(* new instance is constructed; a read leaves the field of the instance    *)
(* it reads unchanged.                                                     *)
(***************************************************************************)
C8_Independent ==
    [][/\ DOMAIN heap \subseteq DOMAIN heap'
       /\ Cardinality(Touched) <= 1
       /\ \A i \in DOMAIN heap \ Touched : heap'[i] = heap[i]
       /\ \A i \in Touched :
             /\ Len(log'[i]) = Len(log[i]) + 1
             /\ log'[i][Len(log'[i])].op = "read" => heap'[i] = heap[i]]_vars

\* two instances of one class hold different fields, after a read and a failed operation
C8_Witness ==
    \E i, j \in DOMAIN heap :
        /\ i # j
        /\ heap[i].cls = heap[j].cls
        /\ heap[i].dict # heap[j].dict
        /\ \E k \in 1..Len(log[i]) : log[i][k].out.kind = "raise"
        /\ \E k \in 1..Len(log[j]) : log[j][k].op = "read"

(***************************************************************************)
(* C9: on a B or D instance the field holds None or is absent, no read     *)
(* returns a value other than None, and once a delete has succeeded the    *)
(* field stays absent: every later read and delete fails with "field       *)
(* absent" and every later write with "capability not available".          *)
(***************************************************************************)
C9_ReadOnlyField ==
    \A i \in DOMAIN heap :
        heap[i].cls \in ReadOnly =>
            /\ Present(heap[i].dict) => heap[i].dict["_x"] = None
            /\ \A k \in 1..Len(log[i]) :
                  /\ log[i][k].out.kind = "return" => log[i][k].out.val = None
                  /\ (log[i][k].op = "delete" /\ log[i][k].out = Done) =>
                        /\ ~Present(heap[i].dict)
                        /\ \A m \in (k + 1)..Len(log[i]) :
                              /\ ~Present(log[i][m].post)
                              /\ log[i][m].op \in {"read", "delete"} =>
                                    log[i][m].out = Raise(FieldAbsent)
                              /\ log[i][m].op = "write" =>
                                    log[i][m].out = Raise(CapabilityNotAvailable)

\* a B or D instance was deleted, then written and read
C9_Witness ==
    \E i \in DOMAIN heap :
        /\ heap[i].cls \in ReadOnly
        /\ Len(log[i]) >= 3
        /\ log[i][1].op = "delete" /\ log[i][1].out = Done
        /\ \A o \in {"read", "write"} :
              \E m \in 2..Len(log[i]) : log[i][m].op = o

(***************************************************************************)
(* C10: on an A or C instance a write of v while the field is absent       *)
(* succeeds and makes the field present with v, so that the next read      *)
(* returns v and the next delete succeeds.                                 *)
(***************************************************************************)
C10_WriteRecovers ==
    \A i \in DOMAIN heap :
        heap[i].cls \in ReadWrite =>
            \A k \in 1..Len(log[i]) :
                (log[i][k].op = "write" /\ ~Present(log[i][k].pre)) =>
                    LET after == [cls |-> heap[i].cls, dict |-> log[i][k].post] IN
                    /\ log[i][k].out = Done
                    /\ Present(log[i][k].post)
                    /\ ReadX(after).out = Return(log[i][k].arg)
                    /\ DeleteX(after).out = Done
                    /\ k < Len(log[i]) =>
                          /\ log[i][k + 1].op = "read" =>
                                log[i][k + 1].out = Return(log[i][k].arg)
                          /\ log[i][k + 1].op = "delete" =>
                                log[i][k + 1].out = Done

\* a deleted field was written and read back
C10_Witness ==
    \E i \in DOMAIN heap :
        /\ heap[i].cls \in ReadWrite
        /\ Len(log[i]) >= 3
        /\ log[i][1].op = "delete"
        /\ log[i][2].op = "write" /\ ~Present(log[i][2].pre)
        /\ log[i][3].op = "read" /\ log[i][3].out = Return(log[i][2].arg)

====
